---- MODULE Spec2Model ----
(***************************************************************************)
(* The three-tier trace chain example-app -> backend-api -> db-api.        *)
(*                                                                         *)
(* Every service is a Flask application whose handlers open spans with     *)
(* `with tracer.start_as_current_span(...)`, whose inbound requests are    *)
(* wrapped by FlaskInstrumentor (a server span, parented by the extracted  *)
(* traceparent header) and whose outbound requests.get calls are wrapped   *)
(* by RequestsInstrumentor (a client span, whose context is injected as    *)
(* the traceparent header).                                                *)
(*                                                                         *)
(* One logical client request is in progress at a time; `spans` holds the  *)
(* spans recorded for it by all three services.  External clients are      *)
(* uninstrumented: they send no traceparent header.  A downstream hop is   *)
(* answered by the downstream service, or fails (unreachable, timeout), or *)
(* is answered by something else with a body that is not the expected JSON.*)
(***************************************************************************)
EXTENDS Integers, Sequences, FiniteSets, TLC

VARIABLES
    spans,      \* spans recorded for the request in progress; index = span id
    now,        \* logical clock stamped on span starts and ends
    nextTid,    \* next fresh trace id
    ctx,        \* per service: stack of the current spans of its request context
    pc,         \* per service: "idle", "recv", "run", "call1", "call2"
    inbox,      \* per service: the inbound request being handled
    reply,      \* per service: the last response its handler returned
    hop,        \* per service: outcome of its current/last outbound call
    items,      \* example-app work(): local `items`, kept across the second call
    sent,       \* log of outbound requests issued for the request in progress
    served,     \* number of client requests accepted so far
    entry       \* the service the client addressed

vars == <<spans, now, nextTid, ctx, pc, inbox, reply, hop, items, sent, served, entry>>

\* ------------------------------------------------------------------ bounds
MaxRequests == 2

\* --------------------------------------------------------------- services
FrontSvc == "example-app"
MidSvc == "backend-api"
DbSvc == "db-api"
Svc == {FrontSvc, MidSvc, DbSvc}

RECORDS ==
    << [id |-> 1, name |-> "widget", stock |-> 142, warehouse |-> "A"],
       [id |-> 2, name |-> "gadget", stock |-> 87, warehouse |-> "B"],
       [id |-> 3, name |-> "doohickey", stock |-> 34, warehouse |-> "A"],
       [id |-> 4, name |-> "thingamajig", stock |-> 210, warehouse |-> "C"],
       [id |-> 5, name |-> "whatsit", stock |-> 6, warehouse |-> "B"] >>

SCHEMA ==
    [table |-> "products",
     columns |-> <<"id", "name", "stock", "warehouse">>,
     indexes |-> <<"id", "warehouse">>,
     row_count |-> Len(RECORDS)]

\* ------------------------------------------------------------ pure helpers
Min(a, b) == IF a <= b THEN a ELSE b
Max(a, b) == IF a >= b THEN a ELSE b

\* Python seq[:limit]: a negative limit counts from the end.
Slice(seq, limit) ==
    IF limit >= 0
    THEN SubSeq(seq, 1, Min(limit, Len(seq)))
    ELSE SubSeq(seq, 1, Max(Len(seq) + limit, 0))

\* Python dict.get(key, default) on a parsed JSON object.
Get(obj, key, default) == IF key \in DOMAIN obj THEN obj[key] ELSE default

\* Python round(x, n) on scaled integers: n / d to the nearest, ties to even.
RoundHalfEven(n, d) ==
    LET q == n \div d
        r == n % d
    IN IF 2 * r < d THEN q
       ELSE IF 2 * r > d THEN q + 1
       ELSE IF q % 2 = 0 THEN q ELSE q + 1

\* A request argument as Flask hands it over: absent, or its text, which is
\* either an integer literal (int |-> TRUE, val) or not (int |-> FALSE).
NoArg == [given |-> FALSE, int |-> FALSE, val |-> 0]
IntArg(n) == [given |-> TRUE, int |-> TRUE, val |-> n]
TextArg == [given |-> TRUE, int |-> FALSE, val |-> 0]
LimitArgs == {NoArg, TextArg} \cup {IntArg(n) : n \in {-6, -1, 0, 3, 5, 7}}
TableArgs == {"products", "orders"}
DefaultArgs == [limit |-> NoArg, table |-> "products"]

\* ------------------------------------------------------------- responses
NoResp == [status |-> 0, json |-> FALSE, obj |-> <<>>]
JsonResp(code, obj) == [status |-> code, json |-> TRUE, obj |-> obj]
\* Flask's answer to an unhandled exception: 500 with an HTML body.
ErrorPage == [status |-> 500, json |-> FALSE, obj |-> <<>>]
\* Answers of something other than the expected service.
TextAnswer == [status |-> 503, json |-> FALSE, obj |-> <<>>]
OtherJsonAnswer == JsonResp(200, [error |-> "unexpected"])

\* What a handler hands back to Flask: `return jsonify(...)` is a 200, an
\* exception that leaves the handler is a 500.
RespondSwallow(raised, obj) == JsonResp(200, obj)
Respond(raised, obj) == IF raised THEN ErrorPage ELSE JsonResp(200, obj)

\* ------------------------------------------------------ hop outcomes
Outcomes == {"ok", "timeout", "unreachable", "notjson", "nofields"}
\* The downstream service receives the request.
Delivered(o) == o \in {"ok", "timeout"}
\* requests.get(..., timeout=5) raises.
GetRaises(o) == o \in {"timeout", "unreachable"}
NoHop == [out |-> "none", path |-> "none"]

\* --------------------------------------------------------- trace context
NoHeader == <<>>
NoContext == [valid |-> FALSE, trace_id |-> 0, span_id |-> 0]

\* W3C traceparent: version, trace-id, parent-id, flags.
InjectNothing(spanList, sid) == NoHeader
Inject(spanList, sid) == <<0, spanList[sid].trace_id, sid, 1>>

Extract(hdr) ==
    IF Len(hdr) = 4 /\ hdr[1] = 0 /\ hdr[2] # 0 /\ hdr[3] # 0
    THEN [valid |-> TRUE, trace_id |-> hdr[2], span_id |-> hdr[3]]
    ELSE NoContext

\* ---------------------------------------------------------------- tracer
\* A tracer view T = [spans, now, stack]: the span store, the clock and the
\* context stack of the service that acts.
View(s) == [spans |-> spans, now |-> now, stack |-> ctx[s]]

Top(T) == T.stack[Len(T.stack)]

ParentOf(T, remote) ==
    IF T.stack # <<>>
    THEN [valid |-> TRUE, trace_id |-> T.spans[Top(T)].trace_id, span_id |-> Top(T)]
    ELSE remote

\* tracer.start_as_current_span(name): a child of the current span, or of the
\* remote context, or a new root with a fresh trace id.
StartSpan(T, svc, name, kind, remote, fresh) ==
    LET p == ParentOf(T, remote)
        sid == Len(T.spans) + 1
        s == [trace_id |-> IF p.valid THEN p.trace_id ELSE fresh,
              parent |-> IF p.valid THEN p.span_id ELSE 0,
              service |-> svc, name |-> name, kind |-> kind,
              start |-> T.now + 1, end |-> 0, ends |-> 0,
              status |-> "UNSET", attrs |-> <<>>]
    IN [spans |-> Append(T.spans, s), now |-> T.now + 1,
        stack |-> Append(T.stack, sid)]

Open(T, svc, name) == StartSpan(T, svc, name, "internal", NoContext, 0)

\* Leaving a `with` block: the current span ends and its parent is current
\* again; an exception passing through marks it ERROR.
EndSpan(T, err) ==
    LET sid == Top(T)
    IN [spans |-> [T.spans EXCEPT ![sid].end = T.now + 1,
                                  ![sid].ends = @ + 1,
                                  ![sid].status = IF err THEN "ERROR" ELSE @],
        now |-> T.now + 1,
        stack |-> SubSeq(T.stack, 1, Len(T.stack) - 1)]

\* An exception leaving n nested `with` blocks, innermost first.
UnwindNoEnd(T, n) ==
    [T EXCEPT !.stack = SubSeq(T.stack, 1, Len(T.stack) - n)]
RECURSIVE Unwind(_, _)
Unwind(T, n) == IF n = 0 THEN T ELSE Unwind(EndSpan(T, TRUE), n - 1)

\* span.set_attribute(key, value)
SetAttr(T, sid, key, value) ==
    [T EXCEPT !.spans[sid].attrs =
        [k \in DOMAIN @ \cup {key} |-> IF k = key THEN value ELSE @[k]]]

\* The span the handler bound with `as span`: the n-th of the stack.
Bound(T, n) == T.stack[n]

\* ------------------------------------------------------------ the requests
NoReq == [route |-> "none", hdr |-> NoHeader, args |-> DefaultArgs]

Routes(s) ==
    CASE s = FrontSvc -> {"/", "/health", "/work", "/data"}
      [] s = MidSvc -> {"/health", "/data", "/compute", "/schema"}
      [] OTHER -> {"/health", "/query", "/schema"}

Init ==
    /\ spans = <<>>
    /\ now = 0
    /\ nextTid = 1
    /\ ctx = [s \in Svc |-> <<>>]
    /\ pc = [s \in Svc |-> "idle"]
    /\ inbox = [s \in Svc |-> NoReq]
    /\ reply = [s \in Svc |-> NoResp]
    /\ hop = [s \in Svc |-> NoHop]
    /\ items = <<>>
    /\ sent = <<>>
    /\ served = 0
    /\ entry = "none"

\* A client sends GET route to service s once the previous request is over;
\* the spans of the previous request have left the services by then.
ClientRequest(s, route, args) ==
    /\ served < MaxRequests
    /\ \A t \in Svc : pc[t] = "idle"
    /\ route \in Routes(s)
    /\ spans' = <<>>
    /\ now' = 0
    /\ ctx' = [t \in Svc |-> <<>>]
    /\ pc' = [pc EXCEPT ![s] = "recv"]
    /\ inbox' = [t \in Svc |-> IF t = s
                   THEN [route |-> route, hdr |-> NoHeader, args |-> args]
                   ELSE NoReq]
    /\ reply' = [t \in Svc |-> NoResp]
    /\ hop' = [t \in Svc |-> NoHop]
    /\ items' = <<>>
    /\ sent' = <<>>
    /\ served' = served + 1
    /\ entry' = s
    /\ UNCHANGED nextTid

\* FlaskInstrumentor: the server span of an inbound request, a child of the
\* extracted context or the root of a new trace.
Receive(s) ==
    /\ pc[s] = "recv"
    /\ LET remote == Extract(inbox[s].hdr)
           T == StartSpan(View(s), s, inbox[s].route, "server", remote, nextTid)
       IN /\ spans' = T.spans
          /\ now' = T.now
          /\ ctx' = [ctx EXCEPT ![s] = T.stack]
          /\ nextTid' = IF remote.valid THEN nextTid ELSE nextTid + 1
    /\ pc' = [pc EXCEPT ![s] = "run"]
    /\ UNCHANGED <<inbox, reply, hop, items, sent, served, entry>>

\* The handler of s returns resp: the server span ends (ERROR on a 5xx) and
\* the response is written.
Done(s, T, resp) ==
    LET T1 == EndSpan(T, resp.status >= 500)
    IN /\ spans' = T1.spans
       /\ now' = T1.now
       /\ ctx' = [ctx EXCEPT ![s] = T1.stack]
       /\ reply' = [reply EXCEPT ![s] = resp]
       /\ pc' = [pc EXCEPT ![s] = "idle"]

\* requests.get(url + path, timeout=5) from s to t under RequestsInstrumentor:
\* a client span whose context travels in the traceparent header.
CallOut(s, t, path, o, T, nextpc) ==
    LET T1 == StartSpan(T, s, "GET", "client", NoContext, 0)
        hdr == Inject(T1.spans, Top(T1))
    IN /\ pc[t] = "idle"
       /\ spans' = T1.spans
       /\ now' = T1.now
       /\ ctx' = [ctx EXCEPT ![s] = T1.stack]
       /\ sent' = Append(sent, [from |-> s, path |-> path, out |-> o])
       /\ hop' = [hop EXCEPT ![s] = [out |-> o, path |-> path]]
       /\ pc' = [pc EXCEPT ![s] = nextpc,
                           ![t] = IF Delivered(o) THEN "recv" ELSE @]
       /\ inbox' = [inbox EXCEPT ![t] = IF Delivered(o)
                       THEN [route |-> path, hdr |-> hdr, args |-> DefaultArgs]
                       ELSE @]
       /\ reply' = [reply EXCEPT ![t] = NoResp]

\* The response requests.get returns to s for its call to t.
Answer(s, t) ==
    CASE hop[s].out = "ok" -> reply[t]
      [] hop[s].out = "notjson" -> TextAnswer
      [] hop[s].out = "nofields" -> OtherJsonAnswer
      [] OTHER -> NoResp

\* requests.get returns or raises: a timeout does not wait for the callee.
Returned(s, t) == hop[s].out = "ok" => pc[t] = "idle"

\* resp.json() raises on a body that is not JSON.
JsonRaises(resp) == ~resp.json

\* The client span ends when requests.get returns or raises.
EndClient(s, t) ==
    EndSpan(View(s), GetRaises(hop[s].out) \/ Answer(s, t).status >= 400)

Sleep(T) == [T EXCEPT !.now = @ + 1]

\* ------------------------------------------------------------------ db-api
\* int(text): the value, or a ValueError.
ParseInt(arg) == [ok |-> arg.int, val |-> arg.val]

\* random.random() in hundredths, random.uniform's variate in 4096ths.
Rolls == {0, 79, 80, 94, 95}
Variates == {0, 1365, 4096}

Uniform(lo, hi, u) == lo + ((hi - lo) * u) \div 4096

\* The latency of a query in microseconds.
Latency(roll, u) ==
    IF roll < 80 THEN Uniform(10000, 30000, u)
    ELSE IF roll < 95 THEN Uniform(30000, 80000, u)
    ELSE Uniform(80000, 300000, u)

\* round(latency * 1000, 2), in hundredths of a millisecond.
LatencyMs(latency) == RoundHalfEven(latency, 10)

DbHealth ==
    /\ pc[DbSvc] = "run"
    /\ inbox[DbSvc].route = "/health"
    /\ Done(DbSvc, View(DbSvc),
            JsonResp(200, [status |-> "healthy", service |-> "db-api"]))
    /\ UNCHANGED <<nextTid, inbox, hop, items, sent, served, entry>>

QueryBody(table, results, latency) ==
    [table |-> table, rows |-> results, count |-> Len(results),
     query_time_ms |-> LatencyMs(latency)]

DbQuery(roll, u) ==
    /\ pc[DbSvc] = "run"
    /\ inbox[DbSvc].route = "/query"
    /\ LET T0 == Open(View(DbSvc), DbSvc, "db.query")
           span == Top(T0)
           table == inbox[DbSvc].args.table
           arg == inbox[DbSvc].args.limit
           parsed == IF arg.given THEN ParseInt(arg)
                     ELSE [ok |-> TRUE, val |-> Len(RECORDS)]
           limit == parsed.val
           latency == Latency(roll, u)
           T1 == SetAttr(SetAttr(SetAttr(T0, span, "db.system", "postgresql"),
                                 span, "db.name", "products_db"),
                         span, "db.table", table)
           T2 == IF roll < 95 THEN T1 ELSE SetAttr(T1, span, "db.slow_query", TRUE)
           T3 == EndSpan(Sleep(Open(T2, DbSvc, "db.execute")), FALSE)
           results == Slice(RECORDS, limit)
           T4 == SetAttr(SetAttr(T3, span, "db.rows_returned", Len(results)),
                         span, "db.latency_ms", LatencyMs(latency))
       IN IF parsed.ok
          THEN Done(DbSvc, EndSpan(T4, FALSE),
                    Respond(FALSE, QueryBody(table, results, latency)))
          ELSE Done(DbSvc, Unwind(T0, 1), Respond(TRUE, <<>>))
    /\ UNCHANGED <<nextTid, inbox, hop, items, sent, served, entry>>

DbSchema ==
    /\ pc[DbSvc] = "run"
    /\ inbox[DbSvc].route = "/schema"
    /\ LET T0 == Open(View(DbSvc), DbSvc, "db.schema-lookup")
       IN Done(DbSvc, EndSpan(Sleep(T0), FALSE), Respond(FALSE, SCHEMA))
    /\ UNCHANGED <<nextTid, inbox, hop, items, sent, served, entry>>

\* ------------------------------------------------------------- backend-api
\* random.uniform(1.99, 49.99) in thousandths, the row-th draw after seed.
PriceDraws == <<1990, 1994, 25005, 49986, 49990>>
Seeds == 0 .. 4
Draw(seed, row) == PriceDraws[((seed + row) % Len(PriceDraws)) + 1]

\* round(random.uniform(1.99, 49.99), 2), in cents.
Price(seed, row) == RoundHalfEven(Draw(seed, row), 10)

\* {**row, "price": p}
WithPrice(row, p) ==
    [k \in DOMAIN row \cup {"price"} |-> IF k = "price" THEN p ELSE row[k]]

EnrichSkipsFirst(rows, seed) ==
    [i \in 1 .. Len(rows) - 1 |-> WithPrice(rows[i + 1], Price(seed, i))]
Enrich(rows, seed) == [i \in 1 .. Len(rows) |-> WithPrice(rows[i], Price(seed, i))]

\* Python integers are unbounded: a number is kept as <<high, low>> limbs in
\* base 10^6.
Big(n) == <<n \div 1000000, n % 1000000>>
BigAdd(a, b) ==
    <<a[1] + b[1] + (a[2] + b[2]) \div 1000000, (a[2] + b[2]) % 1000000>>

\* sum(i ** 2 for i in range(lo, hi)), by halving the range.
RECURSIVE SumSquares(_, _)
SumSquares(lo, hi) ==
    IF hi <= lo THEN Big(0)
    ELSE IF hi = lo + 1 THEN Big(lo * lo)
    ELSE LET mid == (lo + hi) \div 2
         IN BigAdd(SumSquares(lo, mid), SumSquares(mid, hi))

MidHealth ==
    /\ pc[MidSvc] = "run"
    /\ inbox[MidSvc].route = "/health"
    /\ Done(MidSvc, View(MidSvc),
            JsonResp(200, [status |-> "healthy", service |-> "backend-api"]))
    /\ UNCHANGED <<nextTid, inbox, hop, items, sent, served, entry>>

MidDataCall(o) ==
    /\ pc[MidSvc] = "run"
    /\ inbox[MidSvc].route = "/data"
    /\ LET T0 == Open(View(MidSvc), MidSvc, "backend.fetch-data")
           T1 == Open(T0, MidSvc, "backend.call-db")
       IN CallOut(MidSvc, DbSvc, "/query", o, T1, "call1")
    /\ UNCHANGED <<nextTid, items, served, entry>>

MidDataReturn(seed) ==
    /\ pc[MidSvc] = "call1"
    /\ inbox[MidSvc].route = "/data"
    /\ Returned(MidSvc, DbSvc)
    /\ LET resp == Answer(MidSvc, DbSvc)
           T0 == EndClient(MidSvc, DbSvc)
           raised == GetRaises(hop[MidSvc].out) \/ JsonRaises(resp)
           db_data == resp.obj
           T1 == EndSpan(T0, FALSE)
           span == Top(T1)
           rows == Get(db_data, "rows", <<>>)
           T2 == SetAttr(SetAttr(T1, span, "db.rows_returned", Len(rows)),
                         span, "db.query_time_ms", Get(db_data, "query_time_ms", 0))
           enriched == Enrich(rows, seed)
           T3 == EndSpan(Open(T2, MidSvc, "backend.enrich"), FALSE)
       IN IF raised
          THEN Done(MidSvc, Unwind(T0, 2), Respond(TRUE, <<>>))
          ELSE Done(MidSvc, EndSpan(T3, FALSE),
                    Respond(FALSE, [items |-> enriched, count |-> Len(enriched)]))
    /\ UNCHANGED <<nextTid, inbox, hop, items, sent, served, entry>>

MidCompute(roll) ==
    /\ pc[MidSvc] = "run"
    /\ inbox[MidSvc].route = "/compute"
    /\ LET T0 == Open(View(MidSvc), MidSvc, "backend.compute")
           span == Top(T0)
           T1 == Open(T0, MidSvc, "backend.heavy-work")
           T2 == IF roll < 10 THEN Sleep(T1) ELSE T1
           result == SumSquares(0, 2000)
           T3 == SetAttr(EndSpan(T2, FALSE), span, "compute.result", result)
       IN Done(MidSvc, EndSpan(T3, FALSE),
               Respond(FALSE, [result |-> result, status |-> "ok"]))
    /\ UNCHANGED <<nextTid, inbox, hop, items, sent, served, entry>>

MidSchemaCall(o) ==
    /\ pc[MidSvc] = "run"
    /\ inbox[MidSvc].route = "/schema"
    /\ LET T0 == Open(View(MidSvc), MidSvc, "backend.get-schema")
       IN CallOut(MidSvc, DbSvc, "/schema", o, T0, "call1")
    /\ UNCHANGED <<nextTid, items, served, entry>>

MidSchemaReturn ==
    /\ pc[MidSvc] = "call1"
    /\ inbox[MidSvc].route = "/schema"
    /\ Returned(MidSvc, DbSvc)
    /\ LET resp == Answer(MidSvc, DbSvc)
           T0 == EndClient(MidSvc, DbSvc)
           raised == GetRaises(hop[MidSvc].out) \/ JsonRaises(resp)
       IN IF raised
          THEN Done(MidSvc, Unwind(T0, 1), Respond(TRUE, <<>>))
          ELSE Done(MidSvc, EndSpan(T0, FALSE), Respond(FALSE, resp.obj))
    /\ UNCHANGED <<nextTid, inbox, hop, items, sent, served, entry>>

\* ------------------------------------------------------------- example-app
\* The paths work() requests from backend-api, in order.
WorkFirstPath == "/data"
WorkSecondPathRepeated == "/data"
WorkSecondPath == "/compute"

FrontHealth ==
    /\ pc[FrontSvc] = "run"
    /\ inbox[FrontSvc].route = "/health"
    /\ Done(FrontSvc, View(FrontSvc), JsonResp(200, [status |-> "healthy"]))
    /\ UNCHANGED <<nextTid, inbox, hop, items, sent, served, entry>>

FrontIndex ==
    /\ pc[FrontSvc] = "run"
    /\ inbox[FrontSvc].route = "/"
    /\ LET T0 == Open(View(FrontSvc), FrontSvc, "handle-index")
           T1 == Sleep(SetAttr(T0, Top(T0), "http.route", "/"))
       IN Done(FrontSvc, EndSpan(T1, FALSE),
               Respond(FALSE, [service |-> "example-app", status |-> "ok",
                               message |-> "Hello from Consul service mesh!"]))
    /\ UNCHANGED <<nextTid, inbox, hop, items, sent, served, entry>>

WorkCallData(o) ==
    /\ pc[FrontSvc] = "run"
    /\ inbox[FrontSvc].route = "/work"
    /\ LET T0 == Open(View(FrontSvc), FrontSvc, "handle-work")
           T1 == SetAttr(T0, Top(T0), "http.route", "/work")
           T2 == Open(T1, FrontSvc, "call-backend-data")
       IN CallOut(FrontSvc, MidSvc, WorkFirstPath, o, T2, "call1")
    /\ UNCHANGED <<nextTid, items, served, entry>>

\* The first call of work() returns; on success the second call is issued.
WorkDataReturn(o) ==
    /\ pc[FrontSvc] = "call1"
    /\ inbox[FrontSvc].route = "/work"
    /\ Returned(FrontSvc, MidSvc)
    /\ LET resp == Answer(FrontSvc, MidSvc)
           T0 == EndClient(FrontSvc, MidSvc)
           raised == GetRaises(hop[FrontSvc].out) \/ JsonRaises(resp)
           got == Get(resp.obj, "items", <<>>)
           span == Bound(T0, 2)
           T1 == EndSpan(SetAttr(T0, span, "backend.items_count", Len(got)), FALSE)
           T2 == Open(T1, FrontSvc, "call-backend-compute")
       IN IF raised
          THEN /\ Done(FrontSvc, Unwind(T0, 2), Respond(TRUE, <<>>))
               /\ UNCHANGED <<inbox, hop, items, sent>>
          ELSE /\ CallOut(FrontSvc, MidSvc, WorkSecondPath, o, T2, "call2")
               /\ items' = got
    /\ UNCHANGED <<nextTid, served, entry>>

WorkComputeReturn ==
    /\ pc[FrontSvc] = "call2"
    /\ inbox[FrontSvc].route = "/work"
    /\ Returned(FrontSvc, MidSvc)
    /\ LET resp == Answer(FrontSvc, MidSvc)
           T0 == EndClient(FrontSvc, MidSvc)
           raised == GetRaises(hop[FrontSvc].out) \/ JsonRaises(resp)
           result == Get(resp.obj, "result", 0)
           span == Bound(T0, 2)
           T1 == EndSpan(SetAttr(T0, span, "backend.compute_result", result), FALSE)
       IN IF raised
          THEN Done(FrontSvc, Unwind(T0, 2), Respond(TRUE, <<>>))
          ELSE Done(FrontSvc, EndSpan(T1, FALSE),
                    Respond(FALSE, [items |-> items, result |-> result,
                                    status |-> "ok"]))
    /\ UNCHANGED <<nextTid, inbox, hop, items, sent, served, entry>>

FrontDataCall(o) ==
    /\ pc[FrontSvc] = "run"
    /\ inbox[FrontSvc].route = "/data"
    /\ LET T0 == Open(View(FrontSvc), FrontSvc, "handle-data")
       IN CallOut(FrontSvc, MidSvc, "/data", o, T0, "call1")
    /\ UNCHANGED <<nextTid, items, served, entry>>

FrontDataReturn ==
    /\ pc[FrontSvc] = "call1"
    /\ inbox[FrontSvc].route = "/data"
    /\ Returned(FrontSvc, MidSvc)
    /\ LET resp == Answer(FrontSvc, MidSvc)
           T0 == EndClient(FrontSvc, MidSvc)
           raised == GetRaises(hop[FrontSvc].out) \/ JsonRaises(resp)
       IN IF raised
          THEN Done(FrontSvc, Unwind(T0, 1), Respond(TRUE, <<>>))
          ELSE Done(FrontSvc, EndSpan(T0, FALSE), Respond(FALSE, resp.obj))
    /\ UNCHANGED <<nextTid, inbox, hop, items, sent, served, entry>>

\* ------------------------------------------------------- the specification
ClientArgs(s, route) ==
    IF s = DbSvc /\ route = "/query"
    THEN [limit : LimitArgs, table : TableArgs]
    ELSE {DefaultArgs}

Next ==
    \/ \E s \in Svc : \E route \in Routes(s) : \E args \in ClientArgs(s, route) :
          ClientRequest(s, route, args)
    \/ \E s \in Svc : Receive(s)
    \/ DbHealth
    \/ \E roll \in Rolls, u \in Variates : DbQuery(roll, u)
    \/ DbSchema
    \/ MidHealth
    \/ \E o \in Outcomes : MidDataCall(o)
    \/ \E seed \in Seeds : MidDataReturn(seed)
    \/ \E roll \in {9, 10} : MidCompute(roll)
    \/ \E o \in Outcomes : MidSchemaCall(o)
    \/ MidSchemaReturn
    \/ FrontHealth
    \/ FrontIndex
    \/ \E o \in Outcomes : WorkCallData(o)
    \/ \E o \in Outcomes : WorkDataReturn(o)
    \/ WorkComputeReturn
    \/ \E o \in Outcomes : FrontDataCall(o)
    \/ FrontDataReturn

Spec == Init /\ [][Next]_vars

\* ------------------------------------------------------------- the claims
Returned200(s) == pc[s] = "idle" /\ reply[s].status = 200
HasReturned(s) == pc[s] = "idle" /\ reply[s].status # 0

Ids == DOMAIN spans
SpansOf(s) == {i \in Ids : spans[i].service = s}
Named(n) == {i \in Ids : spans[i].name = n}
Roots == {i \in Ids : spans[i].parent = 0}

RECURSIVE IsAncestor(_, _)
IsAncestor(a, i) ==
    IF i = 0 THEN FALSE
    ELSE spans[i].parent = a \/ IsAncestor(a, spans[i].parent)

Under(n) == {i \in Ids : \E a \in Named(n) : IsAncestor(a, i)}

AllHopsOk == \A k \in DOMAIN sent : sent[k].out = "ok"
Malformed == {"notjson", "nofields"}

WorkRequest == entry = FrontSvc /\ inbox[FrontSvc].route = "/work"
WorkSucceeded == WorkRequest /\ Returned200(FrontSvc)

\* C1: every successful GET /work of example-app leaves one trace: exactly
\* one span without parent, at least 5 spans descending from it, spans of
\* all three services, one trace id.
C1_WorkTraceShape ==
    WorkSucceeded =>
        /\ Cardinality(Roots) = 1
        /\ \A r \in Roots :
              /\ Cardinality({i \in Ids : IsAncestor(r, i)}) >= 5
              /\ \A i \in Ids \ {r} : IsAncestor(r, i)
        /\ {spans[i].service : i \in Ids} = Svc
        /\ \A i, j \in Ids : spans[i].trace_id = spans[j].trace_id

\* C2: the server span of an inbound request is a child of the extracted
\* context and keeps its trace id, or is the root of a new trace when the
\* request carries no context; the extracted parent is the caller's client
\* span, so every span of the request in every service has the trace id
\* the entry service generated.
C2_ContextPropagation ==
    /\ \A s \in Svc : pc[s] \in {"run", "call1", "call2"} =>
          LET srv == ctx[s][1]
              remote == Extract(inbox[s].hdr)
          IN IF remote.valid
             THEN /\ spans[srv].trace_id = remote.trace_id
                  /\ spans[srv].parent = remote.span_id
                  /\ spans[remote.span_id].kind = "client"
                  /\ spans[remote.span_id].service # s
                  /\ spans[remote.span_id].trace_id = remote.trace_id
             ELSE /\ spans[srv].parent = 0
                  /\ spans[srv].trace_id = nextTid - 1
                  /\ \A j \in Ids : j < srv => spans[j].trace_id # spans[srv].trace_id
    /\ \A s \in Svc \ {entry} : \A i \in SpansOf(s) :
          spans[i].kind = "server" => spans[i].parent # 0
    /\ \A i, j \in Ids : spans[i].trace_id = spans[j].trace_id

C2_Witness ==
    /\ entry = FrontSvc
    /\ spans # <<>>
    /\ spans[1].parent = 0
    /\ \E i \in SpansOf(DbSvc) :
          /\ spans[i].kind = "server"
          /\ spans[i].trace_id = spans[1].trace_id
          /\ spans[spans[i].parent].service = MidSvc
    /\ HasReturned(FrontSvc)

\* C3 as stated: in a work() request each of the two calls to backend-api
\* leads to a call into db-api.
C3_BothCallsReachDb ==
    (WorkSucceeded /\ AllHopsOk) =>
        /\ Under("call-backend-data") \cap SpansOf(DbSvc) # {}
        /\ Under("call-backend-compute") \cap SpansOf(DbSvc) # {}

\* C3 amended: work() calls backend-api twice, /data then /compute; only the
\* /data call leads to a call into db-api, the /compute call never does: the
\* chain example-app -> backend-api -> db-api appears at most once, and
\* exactly once when every downstream call is answered by its service.
C3_OnlyDataCallReachesDb ==
    WorkRequest =>
        /\ Under("call-backend-compute") \cap SpansOf(DbSvc) = {}
        /\ SpansOf(DbSvc) \subseteq Under("call-backend-data")
        /\ Cardinality({i \in SpansOf(DbSvc) : spans[i].kind = "server"}) <= 1
        /\ (WorkSucceeded /\ AllHopsOk) =>
              /\ Cardinality({i \in SpansOf(DbSvc) : spans[i].kind = "server"}) = 1
              /\ Under("call-backend-compute") \cap SpansOf(MidSvc) # {}
              /\ Under("call-backend-data") \cap SpansOf(MidSvc) # {}
              /\ [k \in DOMAIN sent |-> <<sent[k].from, sent[k].path>>] =
                    << <<FrontSvc, "/data">>, <<MidSvc, "/query">>,
                       <<FrontSvc, "/compute">> >>

C3_Witness ==
    /\ WorkSucceeded
    /\ AllHopsOk
    /\ Under("call-backend-data") \cap SpansOf(DbSvc) # {}
    /\ Named("backend.heavy-work") # {}

\* The server span of the latest inbound request of s, and the spans its
\* handler opened directly under it.
ServerSpan(s) ==
    CHOOSE i \in SpansOf(s) :
        /\ spans[i].kind = "server"
        /\ \A j \in SpansOf(s) : spans[j].kind = "server" => j <= i
HandlerSpans(s) == {i \in SpansOf(s) : spans[i].parent = ServerSpan(s)}

LastCallFailed(s) == HasReturned(s) /\ GetRaises(hop[s].out)
Callee(s) == IF s = FrontSvc THEN MidSvc ELSE DbSvc

\* C4: a downstream call that fails (unreachable, timed out) ends the calling
\* handler with a 5xx response, the failure climbs one tier per hop, the
\* failing tier's spans are ended with ERROR status when the response is
\* returned, and no downstream request is issued twice for one inbound
\* request.
C4_FailVisible ==
    /\ \A s \in {FrontSvc, MidSvc} :
          /\ LastCallFailed(s) =>
                /\ reply[s].status >= 500
                /\ spans[ServerSpan(s)].status = "ERROR"
                /\ spans[ServerSpan(s)].ends = 1
                /\ HandlerSpans(s) # {}
                /\ \A i \in HandlerSpans(s) :
                      spans[i].status = "ERROR" /\ spans[i].ends = 1
          /\ (HasReturned(s) /\ hop[s].out = "ok" /\ reply[Callee(s)].status >= 500) =>
                /\ reply[s].status >= 500
                /\ spans[ServerSpan(s)].status = "ERROR"
                /\ \A i \in HandlerSpans(s) : spans[i].status = "ERROR"
    /\ \A k, l \in DOMAIN sent :
          (sent[k].from = sent[l].from /\ sent[k].path = sent[l].path) => k = l
    /\ \A s \in {FrontSvc, MidSvc} :
          Cardinality({k \in DOMAIN sent : sent[k].from = s}) <=
              (IF s = FrontSvc /\ inbox[s].route = "/work" THEN 2 ELSE 1)

C4_Witness ==
    /\ entry = FrontSvc
    /\ LastCallFailed(MidSvc)
    /\ reply[MidSvc].status = 500
    /\ HasReturned(FrontSvc)
    /\ hop[FrontSvc].out = "ok"
    /\ reply[FrontSvc].status = 500

\* C5: GET /query of db-api with a limit that is not a number is answered
\* with a client error (4xx).
C5_BadLimitIsClientError ==
    (HasReturned(DbSvc) /\ inbox[DbSvc].route = "/query"
        /\ inbox[DbSvc].args.limit.given /\ ~inbox[DbSvc].args.limit.int) =>
        reply[DbSvc].status \in 400 .. 499

\* C6: a downstream body that is not the expected JSON (not JSON, or JSON
\* without the expected fields) makes backend-api data() and example-app
\* work() and data() return a failed response.
C6_MalformedIsFailure ==
    \A s \in {FrontSvc, MidSvc} :
        (HasReturned(s) /\ inbox[s].route \in {"/work", "/data"}
            /\ \E k \in DOMAIN sent : sent[k].from = s /\ sent[k].out \in Malformed) =>
            reply[s].status >= 500

\* C8: for every integer limit query() returns the first min(limit, 5)
\* records in order, never more than limit rows, each row with exactly the
\* fields id, name, stock, warehouse, and count is the number of rows.
C8_QueryClamps ==
    (Returned200(DbSvc) /\ inbox[DbSvc].route = "/query") =>
        LET arg == inbox[DbSvc].args.limit
            limit == IF arg.given THEN arg.val ELSE 5
            rows == reply[DbSvc].obj.rows
        IN /\ Len(rows) <= Max(limit, 0)
           /\ Len(rows) <= 5
           /\ rows = SubSeq(RECORDS, 1, Min(limit, 5))
           /\ \A i \in 1 .. Len(rows) :
                 DOMAIN rows[i] = {"id", "name", "stock", "warehouse"}
           /\ reply[DbSvc].obj.count = Len(rows)

\* C9: a successful data() of backend-api returns the rows db-api returned,
\* in order and unchanged but for one added price in [1.99, 49.99]; count is
\* the number of rows; the span attributes db.rows_returned and
\* db.query_time_ms are the row count and the query_time_ms db-api reported.
C9_EnrichKeepsRows ==
    (Returned200(MidSvc) /\ inbox[MidSvc].route = "/data" /\ hop[MidSvc].out = "ok") =>
        LET out == reply[MidSvc].obj
            db == reply[DbSvc].obj
        IN /\ reply[DbSvc].status = 200
           /\ Len(out.items) = Len(db.rows)
           /\ \A i \in 1 .. Len(db.rows) :
                 /\ DOMAIN out.items[i] = DOMAIN db.rows[i] \cup {"price"}
                 /\ "price" \notin DOMAIN db.rows[i]
                 /\ \A k \in DOMAIN db.rows[i] : out.items[i][k] = db.rows[i][k]
                 /\ out.items[i]["price"] \in 199 .. 4999
           /\ out.count = Len(out.items)
           /\ \E i \in HandlerSpans(MidSvc) :
                 /\ spans[i].name = "backend.fetch-data"
                 /\ spans[i].attrs["db.rows_returned"] = Len(db.rows)
                 /\ spans[i].attrs["db.query_time_ms"] = db.query_time_ms

C9_Witness ==
    /\ Returned200(MidSvc)
    /\ inbox[MidSvc].route = "/data"
    /\ hop[MidSvc].out = "ok"
    /\ Len(reply[MidSvc].obj.items) = 5
    /\ reply[MidSvc].obj.items[5]["price"] = 4999

\* C10: a span is ended exactly once on every exit path of the handler that
\* opened it: no span of a service is open once its handler has returned,
\* the open spans of a running handler are those of its context stack, and
\* a span opened inside another of the same handler ends before it.
C10_SpansClosed ==
    /\ \A i \in Ids : spans[i].ends <= 1 /\ (spans[i].ends = 1 <=> spans[i].end # 0)
    /\ \A s \in Svc :
          /\ pc[s] = "idle" => \A i \in SpansOf(s) : spans[i].ends = 1
          /\ {i \in SpansOf(s) : spans[i].ends = 0} =
                {ctx[s][k] : k \in DOMAIN ctx[s]}
          /\ \A k \in DOMAIN ctx[s] : k > 1 => spans[ctx[s][k]].parent = ctx[s][k - 1]
    /\ \A i \in Ids :
          LET p == spans[i].parent
          IN (p # 0 /\ spans[p].service = spans[i].service /\ spans[p].ends = 1) =>
                /\ spans[i].ends = 1
                /\ spans[p].start < spans[i].start
                /\ spans[i].end < spans[p].end

C10_Witness ==
    /\ HasReturned(FrontSvc)
    /\ reply[FrontSvc].status = 500
    /\ Named("call-backend-compute") # {}
    /\ \A i \in SpansOf(FrontSvc) : spans[i].ends = 1
    /\ \E i \in Named("call-backend-compute") : spans[i].status = "ERROR"

====
